---- MODULE Spec2Model ----
(***************************************************************************)
(* A model of the retrieval core of ai-platform-data:                      *)
(*   - src/graph/__init__.py          the tier / edge classification       *)
(*   - src/code_reference/engine.py   registry, metadata cache and search  *)
(*   - src/code_reference/github_client.py   the GitHub client             *)
(*   - src/code_reference/models.py   the reference and its citation       *)
(*   - scripts/index_code_from_github.py   rate-limited client, chunk_code *)
(*   - scripts/seed_neo4j.py          the tier relationships of the store  *)
(* The module holds one specification per part: SpecTier (classification), *)
(* Spec (one search call of CodeReferenceEngine), SpecSession (the async   *)
(* context manager of the engine and of its GitHub client), SpecRegistry   *)
(* (registry and descriptor queries), SpecMeta (get_metadata called from   *)
(* several threads), SpecQuota (rate-limit tracking), SpecCite (citation   *)
(* URLs), SpecSeed (seed_tier_relationships) and SpecChunk (chunk_code).   *)
(*                                                                         *)
(* Python's None is the empty tuple and a present value v is <<v>>; a      *)
(* string that the code inspects (a concept, a path) is a tuple of         *)
(* characters or of path segments.                                         *)
(***************************************************************************)
EXTENDS Integers, Sequences, FiniteSets, TLC

VARIABLES
    \* ---- tier / edge model
    tier1, tier2,        \* arguments of get_edge_type_for_tier_diff
    edge,                \* its last return value, "none" before any call
    \* ---- CodeReferenceEngine: fields
    qdrant_client,       \* BOOLEAN: self.qdrant_client is truthy
    metadata_cache,      \* self._metadata_cache: repo id -> RepoMetadata
    registry_loaded,     \* self._registry is not None
    \* ---- CodeReferenceEngine.search: parameters and locals of the call
    pc,                  \* "idle", "layerA", "layerB", "expand", "done",
                         \* "raised" (an exception left search),
                         \* "cancelled" (CancelledError left search)
    domains, concepts, top_k, expand_context,
    target_repos, domains_searched, references,
    remaining,           \* local `remaining` of Layer 2
    repo_idx,            \* position of the Layer 2 loop in target_repos[:10]
    exp_idx,             \* position of the expansion loop in references
    result,              \* the CodeContext returned, None before the return
    \* ---- history of the call (not program state)
    layer_a,             \* "skipped", "pending", "empty", "raise"
    b_failed,            \* some Layer 2 query of the call failed
    b_requests,          \* Layer 2 queries the call has issued
    b_last,              \* the last Layer 2 query answered: its position,
                         \* len(references) when it was issued, the
                         \* references it added, whether it failed
    refs_at_expand,      \* references when the expansion loop was entered
    expand_log,          \* the outcome of every expansion fetch, in order
    \* ---- session (async with) of the engine and its GitHubClient
    session,             \* "out" or "in" (inside `async with engine`)
    github,              \* engine._github is not None
    client_open,         \* engine._github._client is not None (connection)
    orphans,             \* open connections of clients the engine dropped
    sessions,            \* sessions entered so far
    last_exit,           \* how the last session was left
    last_op,             \* last client request and what it returned
    \* ---- the files the engine reads
    registry_file,       \* "ok", "missing" or "bad" (not JSON)
    descriptor_files,    \* metadata_path -> "ok", "missing" or "bad"
    \* ---- registry queries made one after the other (history)
    q_last,              \* the last query: its arguments, outcome, pre-state
    q_calls,             \* queries made so far
    \* ---- get_metadata called from several threads
    th_pc,               \* thread -> "idle", "scan", "store", "done"
    th_id,               \* thread -> the repo id of its call
    th_obj,              \* thread -> the RepoMetadata object it built
    th_ret,              \* thread -> what its call returned
    cache_obj,           \* repo id -> identity of the cached object
    next_obj,            \* identity of the next object constructed
    returned,            \* repo id -> everything returned for it (history)
    \* ---- scripts/index_code_from_github.py: GitHubClient
    rate_limit_remaining, rate_limit_reset,
    tree_cache,          \* self._tree_cache holds the key of the call
    now,                 \* time.time(), in seconds
    qt_pc,               \* "idle" or the path segments get_tree still walks
    qt_last,             \* last response received, and what the client did
    \* ---- CodeReference.citation and GitHubClient.get_html_url
    cite_ref,            \* the reference (source_url, file_path, lines)
    cite_out,            \* citation of cite_ref, None before the call
    html_out,            \* get_html_url of the same path and lines
    \* ---- the graph store seeded by scripts/seed_neo4j.py
    book_tier,           \* book_id -> b.tier (None for NULL)
    rels,                \* the relationships: <<type, from, to>>
    seed_pc,             \* position inside seed_tier_relationships
    seed_runs,           \* runs of seed_tier_relationships so far
    \* ---- scripts/index_code_from_github.py: chunk_code
    ck_large,            \* file_size > 500_000: the large-file parameters
    ck_total,            \* total_lines of the file
    ck_pc,               \* "idle", "loop" (at the loop test) or "done"
    ck_start,            \* local `start`
    ck_chunks            \* local `chunks`: <<start_line, end_line>> each

vars == <<tier1, tier2, edge, qdrant_client, metadata_cache, registry_loaded,
          pc, domains, concepts, top_k, expand_context, target_repos,
          domains_searched, references, remaining, repo_idx, exp_idx, result,
          layer_a, b_failed, b_requests, b_last, refs_at_expand, expand_log,
          session, github, client_open, orphans, sessions, last_exit, last_op,
          registry_file, descriptor_files, q_last, q_calls,
          th_pc, th_id, th_obj, th_ret, cache_obj, next_obj, returned,
          rate_limit_remaining, rate_limit_reset, tree_cache, now, qt_pc,
          qt_last, cite_ref, cite_out, html_out,
          book_tier, rels, seed_pc, seed_runs,
          ck_large, ck_total, ck_pc, ck_start, ck_chunks>>

tierVars == <<tier1, tier2, edge>>
engineVars == <<qdrant_client, metadata_cache, registry_loaded>>
callVars == <<pc, domains, concepts, top_k, expand_context, target_repos,
              domains_searched, references, remaining, repo_idx, exp_idx,
              result, layer_a, b_failed, b_requests, b_last, refs_at_expand,
              expand_log>>
sessionVars == <<session, github, client_open, orphans, sessions, last_exit,
                 last_op>>
fileVars == <<registry_file, descriptor_files>>
queryVars == <<q_last, q_calls>>
threadVars == <<th_pc, th_id, th_obj, th_ret, cache_obj, next_obj, returned>>
quotaVars == <<rate_limit_remaining, rate_limit_reset, tree_cache, now, qt_pc,
               qt_last>>
citeVars == <<cite_ref, cite_out, html_out>>
seedVars == <<book_tier, rels, seed_pc, seed_runs>>
chunkVars == <<ck_large, ck_total, ck_pc, ck_start, ck_chunks>>

\* the variables outside the tier, engine, call and session groups
auxVars == <<fileVars, queryVars, threadVars, quotaVars, citeVars, seedVars,
             chunkVars>>

-----------------------------------------------------------------------------
(* Bounds of the model *)

MaxTier == 5        \* tiers range over -MaxTier..MaxTier
MaxTopK == 2        \* top_k ranges over -1..MaxTopK
MaxDomains == 2     \* length of the `domains` argument
MaxConcepts == 1    \* length of the `concepts` argument
MaxHits == 2        \* items of one code-search response
MaxSessions == 2    \* sessions one engine object goes through
MaxCalls == 3       \* registry queries made on one engine
MaxCallers == 2     \* threads that call get_metadata on one engine
MaxClock == 90      \* no request is started after this time (seconds)
MaxParts == 1       \* segments of the path given to get_tree
MaxLine == 3        \* line numbers of a chunk range over 1..MaxLine
MaxBooks == 2       \* Book nodes of the store
MaxRuns == 2        \* runs of seed_tier_relationships on one store
MaxWide == 11       \* repositories of the largest domain of the registry
MaxFileLines == 600 \* total_lines of a file given to chunk_code

(* Program constants *)

RepoLimit == 10         \* target_repos[:10]
PerRepoLimit == 5       \* min(remaining, 5)
MaxPerPage == 100       \* min(per_page, 100)
ContextLines == 20      \* context_lines default
GithubEndLine == 100    \* end_line of a Layer 2 chunk
GithubStartLine == 1    \* start_line of a Layer 2 chunk
DefaultRemaining == 5000    \* rate_limit_remaining of a new client
DefaultReset == 0           \* rate_limit_reset of a new client
RateThreshold == 100        \* if self.rate_limit_remaining < 100
WaitCeiling == 60           \* time.sleep(min(wait_time, 60))
MAX_CHUNK_LINES == 100      \* max_lines default
OVERLAP_LINES == 10         \* overlap default
MIN_CHUNK_LINES == 10       \* min_lines default
LargeMaxLines == 500        \* max_lines=500 for a file over 500 KB
LargeOverlap == 20          \* overlap=20
LargeMinLines == 50         \* min_lines=50

-----------------------------------------------------------------------------
(* Python values *)

None == <<>>
Some(v) == <<v>>
IsNone(o) == o = <<>>
Get(o) == o[1]

Min(a, b) == IF a <= b THEN a ELSE b
Max(a, b) == IF a >= b THEN a ELSE b

SeqsUpTo(S, n) == UNION {[1..k -> S] : k \in 0..n}

RECURSIVE Flatten(_)
Flatten(ss) == IF ss = <<>> THEN <<>> ELSE Head(ss) \o Flatten(Tail(ss))

\* s[:k] of a Python list
PySliceTo(s, k) ==
    LET n == Len(s)
        hi == IF k >= 0 THEN Min(k, n) ELSE Max(n + k, 0)
    IN SubSeq(s, 1, hi)

\* str.lower() on the characters the model uses
LowerChar(ch) ==
    CASE ch = "S" -> "s"
      [] ch = "A" -> "a"
      [] ch = "Q" -> "q"
      [] ch = "D" -> "d"
      [] OTHER -> ch

Lower(s) == [i \in 1..Len(s) |-> LowerChar(s[i])]

\* `needle in hay` of two Python strings
Contains(needle, hay) ==
    \E i \in 0..(Len(hay) - Len(needle)) :
        SubSeq(hay, i + 1, i + Len(needle)) = needle

-----------------------------------------------------------------------------
(* src/graph/__init__.py: the tier / edge model *)

EdgeTypes == {"PARALLEL", "PERPENDICULAR", "SKIP_TIER"}

\* abs() of a Python int
PyAbs(x) == IF x < 0 THEN 0 - x ELSE x

\* TierDiff with the abs() forgotten
TierDiff_NoAbs(a, b) == a - b

\* diff = abs(tier1 - tier2)
TierDiff(a, b) == PyAbs(a - b)

\* EdgeOfDiff with the adjacency test one too wide
EdgeOfDiff_Wide(diff) ==
    IF diff = 0 THEN "PARALLEL"
    ELSE IF diff <= 2 THEN "PERPENDICULAR"
    ELSE "SKIP_TIER"

\* the if / elif / else of get_edge_type_for_tier_diff on diff
EdgeOfDiff(diff) ==
    IF diff = 0 THEN "PARALLEL"
    ELSE IF diff = 1 THEN "PERPENDICULAR"
    ELSE "SKIP_TIER"

get_edge_type_for_tier_diff(a, b) == EdgeOfDiff(TierDiff(a, b))

Tiers == (0 - MaxTier)..MaxTier

TierInit ==
    /\ tier1 \in Tiers
    /\ tier2 \in Tiers
    /\ edge = "none"

\* a caller evaluates get_edge_type_for_tier_diff(tier1, tier2)
Classify ==
    /\ edge = "none"
    /\ edge' = get_edge_type_for_tier_diff(tier1, tier2)
    /\ UNCHANGED <<tier1, tier2>>
    /\ UNCHANGED <<engineVars, callVars, sessionVars, auxVars>>

\* the next call, with other arguments
NextPair ==
    /\ edge # "none"
    /\ tier1' \in Tiers
    /\ tier2' \in Tiers
    /\ edge' = "none"
    /\ UNCHANGED <<engineVars, callVars, sessionVars, auxVars>>

-----------------------------------------------------------------------------
(* The files the engine reads: one registry document and one descriptor   *)
(* file per registered repository.  r2 is listed by both domains, r2's    *)
(* target path lies inside r1's, r3 has an empty target path and r4 has   *)
(* no descriptor file yet.  Domain d3 lists more repositories than the     *)
(* Layer 2 loop of search visits; the code search reports no file under   *)
(* their target path.                                                      *)

Stub(id, mp) == [id |-> id, metadata_path |-> mp]

\* the ids of the repositories of d3; each descriptor file is named by
\* the id
WideIds == [i \in 1..MaxWide |-> "w" \o ToString(i)]

Registry ==
    [domains |->
        << [id |-> "d1", repos |-> <<Stub("r1", "m1"), Stub("r2", "m2")>>],
           [id |-> "d2", repos |-> <<Stub("r2", "m2"), Stub("r3", "m3"),
                                     Stub("r4", "m4")>>],
           [id |-> "d3",
            repos |-> [i \in 1..MaxWide |-> Stub(WideIds[i], WideIds[i])]] >>]

Descriptor(id, tp, cs, ps, m) ==
    [id |-> id, target_path |-> tp, concepts |-> cs, patterns |-> ps,
     mirrored |-> m]

\* metadata_path -> the parsed file, None when the file does not exist
DescriptorFile(mp) ==
    CASE mp = "m1" -> Some(Descriptor("r1", <<"r1">>, << <<"S", "a">> >>,
                                      << <<"Q", "s">> >>, TRUE))
      [] mp = "m2" -> Some(Descriptor("r2", <<"r1", "sub">>,
                                      << <<"s", "A">>, <<"q">> >>,
                                      << <<"a">> >>, TRUE))
      [] mp = "m3" -> Some(Descriptor("r3", <<>>, << <<"Q">> >>, <<>>, FALSE))
      [] \E i \in 1..MaxWide : mp = WideIds[i] ->
             Some(Descriptor(mp, <<"w">>, <<>>, <<>>, FALSE))
      [] OTHER -> None

MetadataPaths ==
    {"m1", "m2", "m3", "m4"} \cup {WideIds[i] : i \in 1..MaxWide}

\* the state of every descriptor file when all of them are as written above
ValidFiles ==
    [mp \in MetadataPaths |->
        IF IsNone(DescriptorFile(mp)) THEN "missing" ELSE "ok"]

\* the same with the file at `mp` in state `st`
FilesWith(mp, st) == [ValidFiles EXCEPT ![mp] = st]

\* the descriptor directories an engine is run on: the valid one, and the
\* valid one with one file removed or damaged
FileSets ==
    {ValidFiles, FilesWith("m1", "bad"), FilesWith("m2", "missing"),
     FilesWith("m4", "bad")}

\* the files of the code-reference-engine repository the code search can
\* report, each a path split at "/"
Paths == { <<"r1", "sub", "g">>, <<"README">> }

\* the domain ids a caller passes: "d1" and "d2" in any combination, "d3"
\* alone, and "dx", which the registry does not hold
DomainIds == {"d1", "d2"}
WideDomain == "d3"
UnknownDomain == "dx"
ConceptQueries == { <<"q">> }

-----------------------------------------------------------------------------
(* src/code_reference/engine.py: registry and metadata cache *)

\* for domain in registry["domains"]: for repo in domain["repos"]
AllStubs ==
    Flatten([i \in 1..Len(Registry.domains) |-> Registry.domains[i].repos])

\* the repos of every domain whose id is domain_id
StubsOfDomain(domain_id) ==
    Flatten([i \in 1..Len(Registry.domains) |->
                IF Registry.domains[i].id = domain_id
                THEN Registry.domains[i].repos ELSE <<>>])

CacheHas(cache, repo_id) == repo_id \in DOMAIN cache

\* the `registry` property answering with an empty registry on any error
RegistryRaises_Never == FALSE

\* the `registry` property raises: self._registry is None and open() or
\* json.load() fails on the file
RegistryRaises == ~registry_loaded /\ registry_file # "ok"

\* metadata_path.exists()
Exists(mp) == descriptor_files[mp] # "missing"

CachePut(cache, repo_id, meta) ==
    [k \in (DOMAIN cache) \cup {repo_id} |->
        IF k = repo_id THEN meta ELSE cache[k]]

\* the least index of S, 0 when S is empty
First(S) == IF S = {} THEN 0 ELSE CHOOSE i \in S : \A j \in S : i <= j

\* FirstStub without the comparison of the id
FirstStub_AnyId(repo_id) ==
    First({i \in 1..Len(AllStubs) : Exists(AllStubs[i].metadata_path)})

\* the first stub of the registry with this id whose file exists, 0 if none
FirstStub(repo_id) ==
    First({i \in 1..Len(AllStubs) :
              /\ AllStubs[i].id = repo_id
              /\ Exists(AllStubs[i].metadata_path)})

\* the body of get_metadata after a cache miss, `first` the stub found
LoadStub(cache, repo_id, first) ==
    IF RegistryRaises
    THEN [raised |-> TRUE, meta |-> None, cache |-> cache]
    ELSE IF first = 0
    THEN [raised |-> FALSE, meta |-> None, cache |-> cache]
    ELSE IF descriptor_files[AllStubs[first].metadata_path] = "bad"
    THEN [raised |-> TRUE, meta |-> None, cache |-> cache]
    ELSE [raised |-> FALSE,
          meta |-> DescriptorFile(AllStubs[first].metadata_path),
          cache |-> CachePut(cache, repo_id,
                       Get(DescriptorFile(AllStubs[first].metadata_path)))]

\* get_metadata: [raised |-> an exception left the call (the registry or
\* the descriptor file does not open or parse), meta |-> RepoMetadata or
\* None, cache |-> the cache after]
get_metadata(cache, repo_id) ==
    IF CacheHas(cache, repo_id)
    THEN [raised |-> FALSE, meta |-> Some(cache[repo_id]), cache |-> cache]
    ELSE LoadStub(cache, repo_id, FirstStub(repo_id))

\* metadata = get_metadata(repo["id"]) for every stub of `stubs` in order:
\* [raised |-> one of the calls raised (the loop ends there), metas |-> the
\* values returned, cache |-> the cache after]
RECURSIVE LoadEach(_, _)
LoadEach(stubs, cache) ==
    IF stubs = <<>>
    THEN [raised |-> FALSE, metas |-> <<>>, cache |-> cache]
    ELSE LET g == get_metadata(cache, Head(stubs).id)
         IN IF g.raised
            THEN [raised |-> TRUE, metas |-> <<>>, cache |-> g.cache]
            ELSE LET rest == LoadEach(Tail(stubs), g.cache)
                 IN [raised |-> rest.raised,
                     metas |-> <<g.meta>> \o rest.metas,
                     cache |-> rest.cache]

\* the descriptors of `metas` that are not None, unwrapped
Present(metas) ==
    LET some == SelectSeq(metas, LAMBDA m : ~IsNone(m))
    IN [i \in 1..Len(some) |-> Get(some[i])]

\* what a filter returns from the calls of its loop: [raised, repos, cache];
\* the loop header reads self.registry first, and an exception of
\* get_metadata leaves the filter
Filtered(l, Keep(_)) ==
    IF RegistryRaises \/ l.raised
    THEN [raised |-> TRUE, repos |-> <<>>, cache |-> l.cache]
    ELSE [raised |-> FALSE, repos |-> SelectSeq(Present(l.metas), Keep),
          cache |-> l.cache]

get_repos_for_domain(cache, domain_id) ==
    Filtered(LoadEach(StubsOfDomain(domain_id), cache), LAMBDA m : TRUE)

\* ConceptMatches comparing the strings as they are written
ConceptMatches_CaseSensitive(meta, concept) ==
    \E i \in 1..Len(meta.concepts) : Contains(concept, meta.concepts[i])

\* any(concept_lower in c for c in concepts), both sides lower-cased
ConceptMatches(meta, concept) ==
    \E i \in 1..Len(meta.concepts) :
        Contains(Lower(concept), Lower(meta.concepts[i]))

get_repos_by_concept(cache, concept) ==
    Filtered(LoadEach(AllStubs, cache), LAMBDA m : ConceptMatches(m, concept))

\* any(pattern_lower in p for p in patterns), both sides lower-cased
PatternMatches(meta, pattern) ==
    \E i \in 1..Len(meta.patterns) :
        Contains(Lower(pattern), Lower(meta.patterns[i]))

get_repos_by_pattern(cache, pattern) ==
    Filtered(LoadEach(AllStubs, cache), LAMBDA m : PatternMatches(m, pattern))

\* the `else` branch of search: every descriptor with mirrored set
MirroredRepos(cache) ==
    Filtered(LoadEach(AllStubs, cache), LAMBDA m : m.mirrored)

\* for domain_id in domains: target_repos.extend(get_repos_for_domain(..))
RECURSIVE ExtendDomains(_, _)
ExtendDomains(ds, cache) ==
    IF ds = <<>>
    THEN [raised |-> FALSE, repos |-> <<>>, cache |-> cache]
    ELSE LET one == get_repos_for_domain(cache, Head(ds))
         IN IF one.raised THEN one
            ELSE LET rest == ExtendDomains(Tail(ds), one.cache)
                 IN [raised |-> rest.raised,
                     repos |-> one.repos \o rest.repos,
                     cache |-> rest.cache]

\* for concept in concepts: target_repos.extend(get_repos_by_concept(..))
RECURSIVE ExtendConcepts(_, _)
ExtendConcepts(cs, cache) ==
    IF cs = <<>>
    THEN [raised |-> FALSE, repos |-> <<>>, cache |-> cache]
    ELSE LET one == get_repos_by_concept(cache, Head(cs))
         IN IF one.raised THEN one
            ELSE LET rest == ExtendConcepts(Tail(cs), one.cache)
                 IN [raised |-> rest.raised,
                     repos |-> one.repos \o rest.repos,
                     cache |-> rest.cache]

\* ResolveTargets taking the concept branch whenever concepts are given
ResolveTargets_ConceptsFirst(cache, ds, cs) ==
    IF cs # <<>> THEN ExtendConcepts(cs, cache)
    ELSE IF ds # <<>> THEN ExtendDomains(ds, cache)
    ELSE MirroredRepos(cache)

\* lines 227-243 of search: the repositories before de-duplication
ResolveTargets(cache, ds, cs) ==
    IF ds # <<>> THEN ExtendDomains(ds, cache)
    ELSE IF cs # <<>> THEN ExtendConcepts(cs, cache)
    ELSE MirroredRepos(cache)

\* lines 245-252 of search: keep the first descriptor of every id
RECURSIVE UniqueFrom(_, _)
UniqueFrom(repos, seen_ids) ==
    IF repos = <<>> THEN <<>>
    ELSE IF Head(repos).id \in seen_ids
         THEN UniqueFrom(Tail(repos), seen_ids)
         ELSE <<Head(repos)>> \o UniqueFrom(Tail(repos),
                                            seen_ids \cup {Head(repos).id})

\* UniqueRepos with the de-duplication left out
UniqueRepos_KeepAll(repos) == repos

UniqueRepos(repos) == UniqueFrom(repos, {})

\* domains_searched: every requested domain id, appended in request order
DomainsSearched(ds) == ds

-----------------------------------------------------------------------------
(* src/code_reference/github_client.py: the requests of GitHubClient.      *)
(* What the API answers is an input: `resp` is the response (or the        *)
(* transport failure) of the one HTTP request the operation makes.         *)

FileLengths == {0, 200}

\* responses of GET /repos/{repo}/contents/{path}
FileResponses ==
    [kind : {"200", "404", "500", "exc"}, nlines : FileLengths]

\* what a try body does: it returns `value`, or it raises `exc`
\* ("HTTPStatusError" from raise_for_status, "TransportError" from the
\* request itself; "none" when it returns)
BodyReturns(value) == [exc |-> "none", value |-> value]
BodyRaises(exc) == [exc |-> exc, value |-> None]

\* the status of a response as raise_for_status sees it
StatusRaises(resp, value) ==
    CASE resp.kind = "200" -> BodyReturns(value)
      [] resp.kind = "exc" -> BodyRaises("TransportError")
      [] OTHER -> BodyRaises("HTTPStatusError")

\* lines 112-133: the try body of get_file
GetFileBody(resp) ==
    IF resp.kind = "404" THEN BodyReturns(None)
    ELSE StatusRaises(resp, Some([nlines |-> resp.nlines]))

\* CatchGetFile with the clause `except Exception` left out
CatchGetFile_StatusOnly(out) ==
    IF out.exc = "HTTPStatusError" THEN BodyReturns(None) ELSE out

\* lines 135-140: except httpx.HTTPStatusError / except Exception of get_file
CatchGetFile(out) ==
    IF out.exc # "none" THEN BodyReturns(None) ELSE out

\* lines 204-206 and 254-256: except Exception: return []
CatchException(out) ==
    IF out.exc # "none" THEN BodyReturns(<<>>) ELSE out

\* one call of get_file: what it returns, or the exception that leaves it
get_file_call(resp) == CatchGetFile(GetFileBody(resp))

\* get_file: the GitHubFile (its number of lines), or None for a 404, an
\* HTTPStatusError and any other exception
get_file(resp) == get_file_call(resp).value

\* get_file_lines: the window lines[start_idx:end_idx] joined, or None
get_file_lines(resp, start_line, end_line, context_lines) ==
    LET file == get_file(resp)
    IN IF IsNone(file) THEN None
       ELSE LET start_idx == Max(0, start_line - 1 - context_lines)
                end_idx == Min(Get(file).nlines, end_line + context_lines)
            IN Some([lo |-> start_idx, hi |-> Max(start_idx, end_idx)])

\* truth value of the string get_file_lines returned
Truthy(content) == ~IsNone(content) /\ Get(content).hi > Get(content).lo

HasPrefix(pre, path) ==
    Len(pre) <= Len(path) /\ SubSeq(path, 1, Len(pre)) = pre

Injective(seq) ==
    \A i, j \in 1..Len(seq) : seq[i] = seq[j] => i = j

\* responses of GET /search/code for "path:<prefix>" and per_page: at most
\* per_page items, no file twice, every file under the prefix; or an HTTP
\* error status; or a transport exception; or an item whose sha is null
SearchResponses(prefix, per_page) ==
    LET under == {path \in Paths : HasPrefix(prefix, path)}
        lists == {l \in SeqsUpTo(under, Min(per_page, MaxHits)) : Injective(l)}
    IN {[kind |-> "200",
         items |-> [i \in 1..Len(l) |-> [path |-> l[i], sha_ok |-> TRUE]]]
            : l \in lists}
       \cup {[kind |-> k, items |-> <<>>] : k \in {"500", "exc"}}
       \cup {[kind |-> "200", items |-> <<[path |-> path, sha_ok |-> FALSE]>>]
                : path \in {q \in under : per_page >= 1}}

\* lines 239-252: the try body of search_code
SearchCodeBody(resp) == StatusRaises(resp, resp.items)

search_code_call(resp) == CatchException(SearchCodeBody(resp))

\* search_code: the result dicts, or [] when anything raised
search_code(resp) == search_code_call(resp).value

\* responses of GET /repos/{repo}/contents/{path} for a directory listing:
\* a JSON list of entries, a JSON object (the path is a file), an error
\* status, a transport exception
DirResponses ==
    [kind : {"200", "404", "500", "exc"}, is_list : BOOLEAN,
     entries : SeqsUpTo(Paths, 1)]

\* lines 188-202: the try body of list_directory
ListDirectoryBody(resp) ==
    StatusRaises(resp, IF resp.is_list THEN resp.entries ELSE <<>>)

list_directory_call(resp) == CatchException(ListDirectoryBody(resp))

\* list_directory: the entries of a JSON list, [] for any other JSON value
\* and when anything raised
list_directory(resp) == list_directory_call(resp).value

-----------------------------------------------------------------------------
(* src/code_reference/engine.py: search *)

\* result["path"].split("/")[0] if "/" in result["path"] else ""
RepoIdOfPath(path) == IF Len(path) > 1 THEN path[1] ELSE ""

GithubRef(item) ==
    [chunk |-> [repo_id |-> RepoIdOfPath(item.path),
                file_path |-> item.path,
                start_line |-> GithubStartLine,
                end_line |-> GithubEndLine,
                content |-> ""],
     full_content |-> None,
     source_url |-> "html_url",
     repo_metadata |-> None]

\* a call's outcome: an exception, or the references returned
Raised == [raised |-> TRUE, refs |-> <<>>]
Returned(refs) == [raised |-> FALSE, refs |-> refs]

\* _search_qdrant: `return []`, unless the body raises first (asyncio is
\* not imported by the module, so `await asyncio.sleep(0)` is a NameError)
QdrantOutcomes == {"empty", "raise"}

search_qdrant(outcome) ==
    IF outcome = "raise" THEN Raised ELSE Returned(<<>>)

\* _search_github: result['sha'][:8] raises on a sha that is no string
search_github(results) ==
    IF \E i \in 1..Len(results) : ~results[i].sha_ok
    THEN Raised
    ELSE Returned([i \in 1..Len(results) |-> GithubRef(results[i])])

\* TryLayerA without the except clause
TryLayerA_NoCatch(out) == out

\* lines 256-264: try ... except Exception around Layer 1
TryLayerA(out) == IF out.raised THEN Returned(<<>>) ELSE out

\* TryLayerB without the except clause
TryLayerB_NoCatch(out) == out

\* lines 272-280: try ... except Exception around one Layer 2 query
TryLayerB(out) == IF out.raised THEN Returned(<<>>) ELSE out

\* lines 286-295: one expansion fetch inside try ... except Exception;
\* `if content: ref.full_content = content`
ExpandRef(ref, content) ==
    IF Truthy(content) THEN [ref EXCEPT !.full_content = content] ELSE ref

\* ExpandAt dropping the reference whose fetch gave nothing
ExpandAt_DropFailed(refs, j, content) ==
    IF Truthy(content)
    THEN [refs EXCEPT ![j] = [@ EXCEPT !.full_content = content]]
    ELSE SubSeq(refs, 1, j - 1) \o SubSeq(refs, j + 1, Len(refs))

\* the reference list after the expansion fetch of references[j]
ExpandAt(refs, j, content) ==
    [refs EXCEPT ![j] = ExpandRef(refs[j], content)]

\* lines 298-300: attach repo metadata to every reference that has none
RECURSIVE AttachAll(_, _)
AttachAll(refs, cache) ==
    IF refs = <<>>
    THEN [refs |-> <<>>, cache |-> cache]
    ELSE LET ref == Head(refs)
             g == IF IsNone(ref.repo_metadata)
                  THEN get_metadata(cache, ref.chunk.repo_id)
                  ELSE [raised |-> FALSE, meta |-> ref.repo_metadata,
                        cache |-> cache]
             rest == AttachAll(Tail(refs), g.cache)
         IN [refs |-> <<[ref EXCEPT !.repo_metadata = g.meta]>> \o rest.refs,
             cache |-> rest.cache]

\* Assemble without the slice to top_k
Assemble_NoSlice(refs, k, searched) ==
    [primary_references |-> refs,
     domains_searched |-> searched,
     total_chunks_found |-> Len(refs)]

\* lines 302-307: the CodeContext returned
Assemble(refs, k, searched) ==
    [primary_references |-> PySliceTo(refs, k),
     domains_searched |-> searched,
     total_chunks_found |-> Len(refs)]

-----------------------------------------------------------------------------
(* One call of search, one step per await *)

DomainLists ==
    SeqsUpTo(DomainIds, MaxDomains) \cup {<<UnknownDomain>>, <<WideDomain>>}
ConceptLists == SeqsUpTo(ConceptQueries, MaxConcepts)
TopKs == (0 - 1)..MaxTopK

\* GitHubClient.__aexit__ leaving the connection open
ClientAexit_NoClose(open) == open

\* GitHubClient.__aenter__: self._client = httpx.AsyncClient(...)
ClientAenter(open) == TRUE

\* GitHubClient.__aexit__: if self._client: aclose(); self._client = None
ClientAexit(open) == FALSE

\* GitHubClient.client: create the httpx.AsyncClient if there is none
ClientProperty(open) == TRUE

\* a request of search goes through self.github (lines 102-107: the
\* GitHubClient is created if there is none) and through its `client`
\* property (the connection is created if there is none)
UseClient ==
    /\ github' = TRUE
    /\ client_open' = ClientProperty(github /\ client_open)

\* an exception leaves search
Raise ==
    /\ pc' = "raised"
    /\ result' = None
    /\ UNCHANGED <<references, metadata_cache, exp_idx, github, client_open>>

\* lines 297-307: attach the metadata, assemble the CodeContext, return
Finish(refs) ==
    LET a == AttachAll(refs, metadata_cache)
    IN /\ pc' = "done"
       /\ references' = a.refs
       /\ metadata_cache' = a.cache
       /\ result' = Some(Assemble(a.refs, top_k, domains_searched))
       /\ UNCHANGED <<exp_idx, github, client_open>>

\* lines 283-295: the expansion loop from position `from`, up to its next
\* fetch (the next reference whose full_content is None)
ContinueExpand(refs, from) ==
    LET todo == {i \in from..Len(refs) : IsNone(refs[i].full_content)}
    IN IF expand_context /\ todo # {}
       THEN /\ pc' = "expand"
            /\ references' = refs
            /\ exp_idx' = CHOOSE i \in todo : \A j \in todo : i <= j
            /\ UseClient
            /\ UNCHANGED <<result, metadata_cache>>
       ELSE Finish(refs)

EnterExpand(refs) ==
    /\ refs_at_expand' = refs
    /\ expand_log' = [i \in 1..Len(refs) |-> "none"]
    /\ ContinueExpand(refs, 1)

\* ContinueLayerB looping over target_repos, not over target_repos[:10]
ContinueLayerB_NoSlice(refs, idx) ==
    /\ repo_idx' = idx
    /\ IF idx <= Len(target_repos) /\ Len(refs) < top_k
       THEN /\ pc' = "layerB"
            /\ references' = refs
            /\ b_requests' = b_requests + 1
            /\ UseClient
            /\ UNCHANGED <<exp_idx, result, metadata_cache,
                           refs_at_expand, expand_log>>
       ELSE /\ EnterExpand(refs)
            /\ UNCHANGED b_requests

\* lines 269-271: the Layer 2 loop at position idx of target_repos[:10],
\* up to its next query
ContinueLayerB(refs, idx) ==
    /\ repo_idx' = idx
    /\ IF idx <= Len(PySliceTo(target_repos, RepoLimit)) /\ Len(refs) < top_k
       THEN /\ pc' = "layerB"
            /\ references' = refs
            /\ b_requests' = b_requests + 1
            /\ UseClient
            /\ UNCHANGED <<exp_idx, result, metadata_cache,
                           refs_at_expand, expand_log>>
       ELSE /\ EnterExpand(refs)
            /\ UNCHANGED b_requests

\* lines 224-252: the call starts and resolves its scope
StartSearch(ds, cs, k, ec) ==
    /\ pc = "idle"
    /\ LET r == ResolveTargets(metadata_cache, ds, cs)
       IN /\ target_repos' = UniqueRepos(r.repos)
          /\ metadata_cache' = r.cache
          /\ pc' = IF r.raised THEN "raised" ELSE "layerA"
    /\ registry_loaded' = (registry_loaded \/ registry_file = "ok")
    /\ domains' = ds
    /\ concepts' = cs
    /\ top_k' = k
    /\ expand_context' = ec
    /\ domains_searched' = IF ds # <<>> THEN DomainsSearched(ds) ELSE <<>>
    /\ UNCHANGED <<qdrant_client, references, remaining, repo_idx, exp_idx,
                   result, layer_a, b_failed, b_requests, b_last,
                   refs_at_expand, expand_log>>
    /\ UNCHANGED <<tierVars, sessionVars, auxVars>>

\* LayerA entering the Layer 2 loop without the test of line 267
LayerA_NoGuard(outcome) ==
    /\ pc = "layerA"
    /\ LET got == IF qdrant_client
                  THEN TryLayerA(search_qdrant(outcome))
                  ELSE Returned(<<>>)
           refs == references \o got.refs
       IN /\ remaining' = top_k - Len(refs)
          /\ repo_idx' = 1
          /\ IF target_repos # <<>>
             THEN /\ pc' = "layerB"
                  /\ references' = refs
                  /\ b_requests' = b_requests + 1
                  /\ UseClient
                  /\ UNCHANGED <<exp_idx, result, metadata_cache,
                                 refs_at_expand, expand_log>>
             ELSE /\ EnterExpand(refs)
                  /\ UNCHANGED b_requests
    /\ layer_a' = IF qdrant_client THEN outcome ELSE "skipped"
    /\ UNCHANGED b_last
    /\ UNCHANGED <<qdrant_client, registry_loaded, domains, concepts, top_k,
                   expand_context, target_repos, domains_searched, b_failed>>
    /\ UNCHANGED <<session, orphans, sessions, last_exit, last_op>>
    /\ UNCHANGED <<tierVars, auxVars>>

\* lines 254-268: Layer 1 (when a Qdrant client is configured), then the
\* entry of Layer 2
LayerA(outcome) ==
    /\ pc = "layerA"
    /\ LET got == IF qdrant_client
                  THEN TryLayerA(search_qdrant(outcome))
                  ELSE Returned(<<>>)
           refs == references \o got.refs
       IN IF got.raised
          THEN Raise /\ UNCHANGED <<remaining, repo_idx, b_requests,
                                    refs_at_expand, expand_log>>
          ELSE IF Len(refs) < top_k
               THEN /\ remaining' = top_k - Len(refs)
                    /\ ContinueLayerB(refs, 1)
               ELSE /\ UNCHANGED <<remaining, repo_idx, b_requests>>
                    /\ EnterExpand(refs)
    /\ layer_a' = IF qdrant_client THEN outcome ELSE "skipped"
    /\ UNCHANGED b_last
    /\ UNCHANGED <<qdrant_client, registry_loaded, domains, concepts, top_k,
                   expand_context, target_repos, domains_searched, b_failed>>
    /\ UNCHANGED <<session, orphans, sessions, last_exit, last_op>>
    /\ UNCHANGED <<tierVars, auxVars>>

\* the query failed: search_code caught an error status or an exception and
\* returned [], or _search_github raised
QueryFailed(resp) ==
    resp.kind # "200" \/ search_github(search_code(resp)).raised

\* lines 272-280: the query of target_repos[repo_idx] answers
LayerB(resp) ==
    /\ pc = "layerB"
    /\ LET got == TryLayerB(search_github(search_code(resp)))
       IN IF got.raised
          THEN Raise /\ UNCHANGED <<repo_idx, b_requests, refs_at_expand,
                                    expand_log>>
          ELSE ContinueLayerB(references \o got.refs, repo_idx + 1)
    /\ b_last' = Some([idx |-> repo_idx,
                       before |-> Len(references),
                       got |-> Len(TryLayerB(search_github(
                                       search_code(resp))).refs),
                       failed |-> QueryFailed(resp)])
    /\ b_failed' = (b_failed \/ QueryFailed(resp))
    /\ UNCHANGED <<qdrant_client, registry_loaded, domains, concepts, top_k,
                   expand_context, target_repos, domains_searched, remaining,
                   layer_a>>
    /\ UNCHANGED <<session, orphans, sessions, last_exit, last_op>>
    /\ UNCHANGED <<tierVars, auxVars>>

\* the API answers the query "path:<target_path>" with per_page = limit =
\* min(remaining, 5)
LayerBAnswer ==
    /\ pc = "layerB"
    /\ \E resp \in SearchResponses(target_repos[repo_idx].target_path,
                                   Min(remaining, PerRepoLimit)) :
          LayerB(resp)

\* lines 286-295: the fetch for references[exp_idx] answers
Expand(resp) ==
    /\ pc = "expand"
    /\ LET ref == references[exp_idx]
           content == get_file_lines(resp,
                          Max(1, ref.chunk.start_line - ContextLines),
                          ref.chunk.end_line + ContextLines, 0)
       IN /\ expand_log' = [expand_log EXCEPT ![exp_idx] =
                               IF Truthy(content) THEN "ok" ELSE "fail"]
          /\ ContinueExpand(ExpandAt(references, exp_idx, content), exp_idx + 1)
    /\ UNCHANGED <<qdrant_client, registry_loaded, domains, concepts, top_k,
                   expand_context, target_repos, domains_searched, remaining,
                   repo_idx, layer_a, b_failed, b_requests, b_last,
                   refs_at_expand>>
    /\ UNCHANGED <<session, orphans, sessions, last_exit, last_op>>
    /\ UNCHANGED <<tierVars, auxVars>>

\* the task running search is cancelled while it awaits an HTTP request (a
\* deadline of the caller, asyncio.wait_for): CancelledError is no
\* Exception, no handler of get_file, search_code or search catches it, and
\* it leaves the call.  Layer 1 suspends nowhere before it returns or raises.
Cancel ==
    /\ pc \in {"layerB", "expand"}
    /\ pc' = "cancelled"
    /\ UNCHANGED <<engineVars, domains, concepts, top_k, expand_context,
                   target_repos, domains_searched, references, remaining,
                   repo_idx, exp_idx, result, layer_a, b_failed, b_requests,
                   b_last, refs_at_expand, expand_log>>
    /\ UNCHANGED <<tierVars, sessionVars, auxVars>>

TierIdle == tier1 = 0 /\ tier2 = 0 /\ edge = "none"

\* the registry and the descriptor files are the valid ones
FilesValid ==
    /\ registry_file = "ok"
    /\ descriptor_files = ValidFiles

QueryIdle == q_last = None /\ q_calls = 0

ThreadIdle ==
    /\ th_pc = <<>>
    /\ th_id = <<>>
    /\ th_obj = <<>>
    /\ th_ret = <<>>
    /\ cache_obj = <<>>
    /\ next_obj = 0
    /\ returned = <<>>

\* GitHubClient.__init__ of the indexing script
QuotaIdle ==
    /\ rate_limit_remaining = DefaultRemaining
    /\ rate_limit_reset = DefaultReset
    /\ tree_cache = FALSE
    /\ now = 0
    /\ qt_pc = None
    /\ qt_last = None

CiteIdle == cite_ref = None /\ cite_out = None /\ html_out = None

SeedIdle ==
    /\ book_tier = <<>>
    /\ rels = {}
    /\ seed_pc = "idle"
    /\ seed_runs = 0

\* everything outside the tier, engine, call and session groups is at rest
ChunkIdle ==
    /\ ck_large = FALSE
    /\ ck_total = 1
    /\ ck_pc = "idle"
    /\ ck_start = 0
    /\ ck_chunks = <<>>

AuxIdle ==
    /\ FilesValid
    /\ QueryIdle
    /\ ThreadIdle
    /\ QuotaIdle
    /\ CiteIdle
    /\ SeedIdle
    /\ ChunkIdle

SessionIdle ==
    /\ session = "out"
    /\ github = FALSE
    /\ client_open = FALSE
    /\ orphans = 0
    /\ sessions = 0
    /\ last_exit = "none"
    /\ last_op = "none"

CallIdle ==
    /\ pc = "idle"
    /\ domains = <<>>
    /\ concepts = <<>>
    /\ top_k = 0
    /\ expand_context = FALSE
    /\ target_repos = <<>>
    /\ domains_searched = <<>>
    /\ references = <<>>
    /\ remaining = 0
    /\ repo_idx = 0
    /\ exp_idx = 0
    /\ result = None
    /\ layer_a = "pending"
    /\ b_failed = FALSE
    /\ b_requests = 0
    /\ b_last = None
    /\ refs_at_expand = <<>>
    /\ expand_log = <<>>

EngineNew ==
    /\ metadata_cache = <<>>
    /\ registry_loaded = FALSE

Init ==
    /\ qdrant_client \in BOOLEAN
    /\ EngineNew
    /\ CallIdle
    /\ TierIdle
    /\ SessionIdle
    /\ AuxIdle

Next ==
    \/ \E ds \in DomainLists, cs \in ConceptLists, k \in TopKs,
          ec \in BOOLEAN : StartSearch(ds, cs, k, ec)
    \/ \E outcome \in QdrantOutcomes : LayerA(outcome)
    \/ LayerBAnswer
    \/ \E resp \in FileResponses : Expand(resp)
    \/ Cancel

Spec == Init /\ [][Next]_vars

TierNext == Classify \/ NextPair

TierSpecInit ==
    /\ TierInit
    /\ qdrant_client = FALSE
    /\ EngineNew
    /\ CallIdle
    /\ SessionIdle
    /\ AuxIdle

SpecTier == TierSpecInit /\ [][TierNext]_vars

-----------------------------------------------------------------------------
(* The session of the engine: `async with CodeReferenceEngine() as e`,     *)
(* and the requests made through e.github before, inside and after it.     *)
(* One session at a time; an engine object may be entered again after it   *)
(* was left.                                                               *)

ExitPaths == {"normal", "error", "cancel"}

\* CodeReferenceEngine.__aenter__: a new GitHubClient replaces self._github
\* and is entered; a connection the replaced client held stays open
EngineAenter ==
    /\ session = "out"
    /\ sessions < MaxSessions
    /\ session' = "in"
    /\ sessions' = sessions + 1
    /\ github' = TRUE
    /\ client_open' = ClientAenter(FALSE)
    /\ orphans' = IF github /\ client_open THEN orphans + 1 ELSE orphans
    /\ UNCHANGED <<last_exit, last_op>>
    /\ UNCHANGED <<tierVars, engineVars, callVars, auxVars>>

\* CodeReferenceEngine.__aexit__, whatever ended the block
EngineAexit(how) ==
    /\ session = "in"
    /\ session' = "out"
    /\ client_open' = IF github THEN ClientAexit(client_open) ELSE client_open
    /\ last_exit' = how
    /\ UNCHANGED <<github, orphans, sessions, last_op>>
    /\ UNCHANGED <<tierVars, engineVars, callVars, auxVars>>

\* the rate-limit headers of a response of the API
QuotaHeaders == [remaining : {0, 4999}, reset : {60}]

\* the rate-limit state the async GitHubClient holds: __init__ sets token,
\* repo, timeout and _client, and no method reads a response header
ClientQuota == None

\* what a request leaves in the engine and its client: engine.github
\* creates the GitHubClient if there is none, client.client the connection.
\* last_op: the operation, what it returned, the kind of the response, the
\* rate-limit headers of the response (None when the request got no
\* response) and whether an exception left the operation
Request(op, out, shown, resp, hdr) ==
    /\ github' = TRUE
    /\ client_open' = ClientProperty(github /\ client_open)
    /\ last_op' = <<op, IF out.exc # "none" THEN "raised" ELSE shown,
                    resp.kind, IF resp.kind = "exc" THEN None ELSE Some(hdr),
                    out.exc # "none">>
    /\ UNCHANGED <<session, orphans, sessions, last_exit>>
    /\ UNCHANGED <<tierVars, engineVars, callVars, auxVars>>

\* e.github.get_file(path)
GetFile(resp, hdr) ==
    LET out == get_file_call(resp)
    IN Request("get_file", out,
               IF IsNone(out.value) THEN "None" ELSE "file", resp, hdr)

\* e.github.get_file_lines(path, 1, 100): get_file, then the slice
GetFileLines(resp, hdr) ==
    LET out == get_file_call(resp)
        text == get_file_lines(resp, GithubStartLine, GithubEndLine, 0)
    IN Request("get_file_lines", out,
               IF IsNone(text) THEN "None" ELSE "text", resp, hdr)

\* e.github.list_directory(path)
ListDirectory(resp, hdr) ==
    LET out == list_directory_call(resp)
    IN Request("list_directory", out,
               IF out.value = <<>> THEN "empty" ELSE "entries", resp, hdr)

\* e.github.search_code(query)
SearchCode(resp, hdr) ==
    LET out == search_code_call(resp)
    IN Request("search_code", out,
               IF out.value = <<>> THEN "empty" ELSE "items", resp, hdr)

\* GET /search/code answers 404 as well
SessionSearchResponses ==
    SearchResponses(<<>>, MaxPerPage) \cup {[kind |-> "404", items |-> <<>>]}

SessionNext ==
    \/ EngineAenter
    \/ \E how \in ExitPaths : EngineAexit(how)
    \/ \E resp \in FileResponses, hdr \in QuotaHeaders : GetFile(resp, hdr)
    \/ \E resp \in FileResponses, hdr \in QuotaHeaders :
           GetFileLines(resp, hdr)
    \/ \E resp \in DirResponses, hdr \in QuotaHeaders :
           ListDirectory(resp, hdr)
    \/ \E resp \in SessionSearchResponses, hdr \in QuotaHeaders :
           SearchCode(resp, hdr)

SessionInit ==
    /\ SessionIdle
    /\ qdrant_client = FALSE
    /\ EngineNew
    /\ CallIdle
    /\ TierIdle
    /\ AuxIdle

SpecSession == SessionInit /\ [][SessionNext]_vars

-----------------------------------------------------------------------------
(* The registry queries of one engine, made one after the other, on a      *)
(* registry file and a descriptor directory that may be damaged.           *)

FileStates == {"ok", "missing", "bad"}

\* the arguments of the queries
QueryIds == {"r1", "r2", "r4", "rx"}
DomainQueries == {"d1", "d2", "D1", "d", "dx"}
QueryTexts == { <<"A">>, <<"q">>, <<"s", "a">>, <<"z">> }

\* one query returns or raises: the engine after it, and the record of it
Query(op, arg, accessed, out, ret) ==
    /\ q_calls < MaxCalls
    /\ q_calls' = q_calls + 1
    /\ metadata_cache' = out.cache
    /\ registry_loaded' = (registry_loaded
                            \/ (accessed /\ registry_file = "ok"))
    /\ q_last' = Some([op |-> op, arg |-> arg, raised |-> out.raised,
                       ret |-> IF out.raised THEN <<>> ELSE ret,
                       pre_loaded |-> registry_loaded,
                       pre_cached |-> DOMAIN metadata_cache,
                       repeat |-> /\ ~IsNone(q_last)
                                  /\ Get(q_last).op = op
                                  /\ Get(q_last).arg = arg])
    /\ UNCHANGED <<qdrant_client, fileVars>>
    /\ UNCHANGED <<tierVars, callVars, sessionVars, threadVars, quotaVars,
                   citeVars, seedVars,
                   chunkVars>>

\* engine.get_metadata(repo_id)
QGetMetadata(repo_id) ==
    LET out == get_metadata(metadata_cache, repo_id)
    IN Query("get_metadata", <<repo_id>>,
             ~CacheHas(metadata_cache, repo_id), out, out.meta)

\* engine.get_repos_for_domain(domain_id)
QForDomain(domain_id) ==
    LET out == get_repos_for_domain(metadata_cache, domain_id)
    IN Query("for_domain", <<domain_id>>, TRUE, out, out.repos)

\* engine.get_repos_by_concept(concept)
QByConcept(concept) ==
    LET out == get_repos_by_concept(metadata_cache, concept)
    IN Query("by_concept", concept, TRUE, out, out.repos)

\* engine.get_repos_by_pattern(pattern)
QByPattern(pattern) ==
    LET out == get_repos_by_pattern(metadata_cache, pattern)
    IN Query("by_pattern", pattern, TRUE, out, out.repos)

RegistryNext ==
    \/ \E repo_id \in QueryIds : QGetMetadata(repo_id)
    \/ \E domain_id \in DomainQueries : QForDomain(domain_id)
    \/ \E concept \in QueryTexts : QByConcept(concept)
    \/ \E pattern \in QueryTexts : QByPattern(pattern)

RegistryInit ==
    /\ registry_file \in FileStates
    /\ descriptor_files \in FileSets
    /\ QueryIdle
    /\ qdrant_client = FALSE
    /\ EngineNew
    /\ CallIdle
    /\ TierIdle
    /\ SessionIdle
    /\ ThreadIdle
    /\ QuotaIdle
    /\ CiteIdle
    /\ SeedIdle
    /\ ChunkIdle

SpecRegistry == RegistryInit /\ [][RegistryNext]_vars

-----------------------------------------------------------------------------
(* get_metadata called on one engine from several threads.  A thread may   *)
(* be suspended between the cache test, the load of the descriptor and the *)
(* store into the cache.  A RepoMetadata object is its identity (obj) and  *)
(* the values of its fields (val).                                         *)

Threads == 1..MaxCallers

MetaIds == {"r1", "r4"}

\* RepoMetadata compared by the identity of the object
MetaEq_Identity(a, b) == a = b

\* a == b of two results of get_metadata: None, or the __eq__ that
\* @dataclass generates, which compares the fields
MetaEq(a, b) ==
    IF IsNone(a) \/ IsNone(b) THEN a = b ELSE Get(a).val = Get(b).val

\* the call of thread t returns `value`
Return(t, repo_id, value) ==
    /\ th_pc' = [th_pc EXCEPT ![t] = "done"]
    /\ th_ret' = [th_ret EXCEPT ![t] = value]
    /\ returned' = [returned EXCEPT ![repo_id] = @ \cup {value}]

\* lines 118-119: thread t calls get_metadata(repo_id) and tests the cache
MCall(t, repo_id) ==
    /\ th_pc[t] = "idle"
    /\ th_id' = [th_id EXCEPT ![t] = repo_id]
    /\ IF CacheHas(metadata_cache, repo_id)
       THEN Return(t, repo_id, Some([obj |-> cache_obj[repo_id],
                                     val |-> metadata_cache[repo_id]]))
       ELSE /\ th_pc' = [th_pc EXCEPT ![t] = "scan"]
            /\ UNCHANGED <<th_ret, returned>>
    /\ UNCHANGED <<th_obj, cache_obj, next_obj>>
    /\ UNCHANGED <<qdrant_client, metadata_cache, registry_loaded>>
    /\ UNCHANGED <<tierVars, callVars, sessionVars, fileVars, queryVars,
                   quotaVars, citeVars, seedVars,
                   chunkVars>>

\* lines 122-128: the scan of the registry and, when a stub with an
\* existing file is found, json.load and RepoMetadata.from_dict; line 133
\* when none is found
MScan(t) ==
    /\ th_pc[t] = "scan"
    /\ LET first == FirstStub(th_id[t])
       IN IF first = 0
          THEN /\ Return(t, th_id[t], None)
               /\ UNCHANGED <<th_obj, next_obj>>
          ELSE /\ th_obj' = [th_obj EXCEPT ![t] =
                      Some([obj |-> next_obj,
                            val |-> Get(DescriptorFile(
                                        AllStubs[first].metadata_path))])]
               /\ next_obj' = next_obj + 1
               /\ th_pc' = [th_pc EXCEPT ![t] = "store"]
               /\ UNCHANGED <<th_ret, returned>>
    /\ registry_loaded' = TRUE
    /\ UNCHANGED <<th_id, cache_obj>>
    /\ UNCHANGED <<qdrant_client, metadata_cache>>
    /\ UNCHANGED <<tierVars, callVars, sessionVars, fileVars, queryVars,
                   quotaVars, citeVars, seedVars,
                   chunkVars>>

\* lines 129-130: self._metadata_cache[repo_id] = metadata; return metadata
MStore(t) ==
    /\ th_pc[t] = "store"
    /\ metadata_cache' = CachePut(metadata_cache, th_id[t], Get(th_obj[t]).val)
    /\ cache_obj' = CachePut(cache_obj, th_id[t], Get(th_obj[t]).obj)
    /\ Return(t, th_id[t], th_obj[t])
    /\ UNCHANGED <<th_id, th_obj, next_obj>>
    /\ UNCHANGED <<qdrant_client, registry_loaded>>
    /\ UNCHANGED <<tierVars, callVars, sessionVars, fileVars, queryVars,
                   quotaVars, citeVars, seedVars,
                   chunkVars>>

\* the caller has its result; the thread is free for its next call
MDone(t) ==
    /\ th_pc[t] = "done"
    /\ th_pc' = [th_pc EXCEPT ![t] = "idle"]
    /\ th_id' = [th_id EXCEPT ![t] = "none"]
    /\ th_obj' = [th_obj EXCEPT ![t] = None]
    /\ th_ret' = [th_ret EXCEPT ![t] = None]
    /\ UNCHANGED <<cache_obj, next_obj, returned>>
    /\ UNCHANGED engineVars
    /\ UNCHANGED <<tierVars, callVars, sessionVars, fileVars, queryVars,
                   quotaVars, citeVars, seedVars,
                   chunkVars>>

MetaNext ==
    \/ \E t \in Threads, repo_id \in MetaIds : MCall(t, repo_id)
    \/ \E t \in Threads : MScan(t)
    \/ \E t \in Threads : MStore(t)
    \/ \E t \in Threads : MDone(t)

MetaInit ==
    /\ th_pc = [t \in Threads |-> "idle"]
    /\ th_id = [t \in Threads |-> "none"]
    /\ th_obj = [t \in Threads |-> None]
    /\ th_ret = [t \in Threads |-> None]
    /\ cache_obj = <<>>
    /\ next_obj = 0
    /\ returned = [id \in MetaIds |-> {}]
    /\ qdrant_client = FALSE
    /\ EngineNew
    /\ CallIdle
    /\ TierIdle
    /\ SessionIdle
    /\ FilesValid
    /\ QueryIdle
    /\ QuotaIdle
    /\ CiteIdle
    /\ SeedIdle
    /\ ChunkIdle

SpecMeta == MetaInit /\ [][MetaNext]_vars

-----------------------------------------------------------------------------
(* scripts/index_code_from_github.py: GitHubClient, the synchronous client *)
(* of the indexing script.  Every action is one HTTP request and what the  *)
(* client does with its response; time.sleep advances the clock `now`.     *)

\* the header X-RateLimit-Remaining of a response, None when absent
RemainingHeaders == {None} \cup {Some(n) : n \in {0, 95, 100, 4999}}

\* the header X-RateLimit-Reset of a response, relative to the time of the
\* response; None when absent
ResetOffsets == {None} \cup {Some(d) : d \in {0 - 10, 30, 60, 61}}

ApiResponses ==
    [status : {"200", "403"}, remaining : RemainingHeaders,
     reset_in : ResetOffsets]

\* int(response.headers.get("X-RateLimit-Remaining", 5000))
HeaderRemaining(resp) ==
    IF IsNone(resp.remaining) THEN DefaultRemaining ELSE Get(resp.remaining)

\* int(response.headers.get("X-RateLimit-Reset", 0))
HeaderReset(resp, t) ==
    IF IsNone(resp.reset_in) THEN DefaultReset ELSE t + Get(resp.reset_in)

\* RateLimitWait sleeping until the reset however far it is
RateLimitWait_NoCeiling(quota, reset, t) ==
    IF quota < RateThreshold /\ reset - t > 0 THEN reset - t ELSE 0

\* lines 169-173: the seconds _check_rate_limit sleeps at time t
RateLimitWait(quota, reset, t) ==
    IF quota < RateThreshold /\ reset - t > 0
    THEN Min(reset - t, WaitCeiling)
    ELSE 0

\* what the client did with a response
Handled(op, resp, slept, ret) ==
    Some([op |-> op, status |-> resp.status, remaining |-> resp.remaining,
          reset |-> IF IsNone(resp.reset_in) THEN None
                    ELSE Some(now + Get(resp.reset_in)),
          time |-> now, slept |-> slept, ret |-> ret])

\* _check_rate_limit(response), then the caller goes on and returns `ret`
CheckRateLimit(op, resp, ret) ==
    LET quota == HeaderRemaining(resp)
        reset == HeaderReset(resp, now)
        slept == RateLimitWait(quota, reset, now)
    IN /\ rate_limit_remaining' = quota
       /\ rate_limit_reset' = reset
       /\ now' = now + slept
       /\ qt_last' = Handled(op, resp, slept, ret)

QuotaFrame ==
    /\ UNCHANGED <<tierVars, engineVars, callVars, sessionVars, fileVars,
                   queryVars, threadVars, citeVars, seedVars,
                   chunkVars>>

\* lines 189-193: get_tree(repo, path) starts; a cached tree is returned
\* without a request
GetTree(nparts) ==
    /\ IsNone(qt_pc)
    /\ now <= MaxClock
    /\ IF tree_cache
       THEN /\ qt_last' = None
            /\ UNCHANGED qt_pc
       ELSE /\ qt_pc' = Some(nparts)
            /\ UNCHANGED qt_last
    /\ UNCHANGED <<rate_limit_remaining, rate_limit_reset, tree_cache, now>>
    /\ QuotaFrame

\* lines 201-221: the request for one segment of the path
TreeWalk(resp, found) ==
    /\ ~IsNone(qt_pc)
    /\ Get(qt_pc) > 0
    /\ IF resp.status = "200" /\ found
       THEN /\ qt_pc' = Some(Get(qt_pc) - 1)
            /\ CheckRateLimit("get_tree", resp, "walking")
       ELSE /\ qt_pc' = None
            /\ CheckRateLimit("get_tree", resp, "empty")
    /\ UNCHANGED tree_cache
    /\ QuotaFrame

\* lines 224-249: the request for the recursive tree
TreeFetch(resp) ==
    /\ qt_pc = Some(0)
    /\ qt_pc' = None
    /\ IF resp.status = "200"
       THEN /\ tree_cache' = TRUE
            /\ CheckRateLimit("get_tree", resp, "tree")
       ELSE /\ UNCHANGED tree_cache
            /\ CheckRateLimit("get_tree", resp, "empty")
    /\ QuotaFrame

\* lines 261-271: the request of one _get_contents_recursive call (every
\* directory of the listing is one more such call)
GetContents(resp) ==
    /\ IsNone(qt_pc)
    /\ now <= MaxClock
    /\ CheckRateLimit("get_contents", resp,
                      IF resp.status = "200" THEN "entries" ELSE "empty")
    /\ UNCHANGED <<tree_cache, qt_pc>>
    /\ QuotaFrame

\* lines 297-304: get_file_content asks the raw-content host and does not
\* call _check_rate_limit
GetFileContent(resp) ==
    /\ IsNone(qt_pc)
    /\ now <= MaxClock
    /\ qt_last' = Handled("get_file_content", resp, 0,
                          IF resp.status = "200" THEN "text" ELSE "None")
    /\ UNCHANGED <<rate_limit_remaining, rate_limit_reset, tree_cache, now,
                   qt_pc>>
    /\ QuotaFrame

\* the raw-content host answers without rate-limit headers
RawResponses ==
    {resp \in ApiResponses : IsNone(resp.remaining) /\ IsNone(resp.reset_in)}

QuotaNext ==
    \/ \E nparts \in 0..MaxParts : GetTree(nparts)
    \/ \E resp \in ApiResponses, found \in BOOLEAN : TreeWalk(resp, found)
    \/ \E resp \in ApiResponses : TreeFetch(resp)
    \/ \E resp \in ApiResponses : GetContents(resp)
    \/ \E resp \in RawResponses : GetFileContent(resp)

QuotaInit ==
    /\ QuotaIdle
    /\ qdrant_client = FALSE
    /\ EngineNew
    /\ CallIdle
    /\ TierIdle
    /\ SessionIdle
    /\ FilesValid
    /\ QueryIdle
    /\ ThreadIdle
    /\ CiteIdle
    /\ SeedIdle
    /\ ChunkIdle

SpecQuota == QuotaInit /\ [][QuotaNext]_vars

-----------------------------------------------------------------------------
(* src/code_reference/models.py: CodeReference.citation, and               *)
(* GitHubClient.get_html_url of github_client.py.  A URL is the sequence   *)
(* of the pieces the f-string joins.                                       *)

\* "https://github.com/{repo}/blob/main" for the code-reference-engine
BlobBase == "https://github.com/kevin-toles/code-reference-engine/blob/main"

SourceUrls == {"", "https://example.org/src"}
FilePaths == {"a.py", "d/b.py"}
Lines == 1..MaxLine

CiteRefs ==
    [source_url : SourceUrls, file_path : FilePaths,
     start_line : Lines, end_line : Lines]

\* lines 82-85: CodeReference.citation
citation(ref) ==
    IF ref.source_url # ""
    THEN <<ref.source_url>>
    ELSE <<BlobBase, "/", ref.file_path, "#L", ToString(ref.start_line),
           "-L", ToString(ref.end_line)>>

\* lines 281-286: get_html_url(path, start_line, end_line); 0 stands for
\* a line that is None
get_html_url(path, start_line, end_line) ==
    <<BlobBase, "/", path>>
        \o (IF start_line # 0 THEN <<"#L", ToString(start_line)>> ELSE <<>>)
        \o (IF start_line # 0 /\ end_line # 0 /\ end_line # start_line
            THEN <<"-L", ToString(end_line)>> ELSE <<>>)

CiteFrame ==
    /\ UNCHANGED <<tierVars, engineVars, callVars, sessionVars, fileVars,
                   queryVars, threadVars, quotaVars, seedVars,
                   chunkVars>>

\* ref.citation is read
Cite ==
    /\ IsNone(cite_out)
    /\ cite_out' = Some(citation(Get(cite_ref)))
    /\ UNCHANGED <<cite_ref, html_out>>
    /\ CiteFrame

\* client.get_html_url(path, start_line, end_line) of the same chunk
HtmlUrl ==
    /\ IsNone(html_out)
    /\ html_out' = Some(get_html_url(Get(cite_ref).file_path,
                                     Get(cite_ref).start_line,
                                     Get(cite_ref).end_line))
    /\ UNCHANGED <<cite_ref, cite_out>>
    /\ CiteFrame

\* the next reference
NextRef ==
    /\ ~IsNone(cite_out)
    /\ ~IsNone(html_out)
    /\ cite_ref' \in {Some(ref) : ref \in CiteRefs}
    /\ cite_out' = None
    /\ html_out' = None
    /\ CiteFrame

CiteNext == Cite \/ HtmlUrl \/ NextRef

CiteInit ==
    /\ cite_ref \in {Some(ref) : ref \in CiteRefs}
    /\ cite_out = None
    /\ html_out = None
    /\ qdrant_client = FALSE
    /\ EngineNew
    /\ CallIdle
    /\ TierIdle
    /\ SessionIdle
    /\ FilesValid
    /\ QueryIdle
    /\ ThreadIdle
    /\ QuotaIdle
    /\ SeedIdle
    /\ ChunkIdle

SpecCite == CiteInit /\ [][CiteNext]_vars

-----------------------------------------------------------------------------
(* scripts/seed_neo4j.py: seed_tier_relationships on the Book nodes of the *)
(* store.  A book is its book_id (ordered, as the query compares them); a  *)
(* relationship is <<type, from, to>>.  Every session.run is one           *)
(* transaction.                                                            *)

Books == 1..MaxBooks

\* b.tier: NULL, or one of the tier levels
BookTiers == {None, Some(1), Some(2), Some(3)}

\* abs(a.tier - b.tier), for tiers that are not NULL
TierGap(a, b) == PyAbs(Get(book_tier[a]) - Get(book_tier[b]))

\* the rows of MATCH (a:Book), (b:Book) WHERE ... of the three queries
ParallelRows ==
    {<<a, b>> \in Books \X Books :
        /\ ~IsNone(book_tier[a])
        /\ book_tier[a] = book_tier[b]
        /\ a < b}

PerpendicularRows ==
    {<<a, b>> \in Books \X Books :
        /\ ~IsNone(book_tier[a]) /\ ~IsNone(book_tier[b])
        /\ TierGap(a, b) = 1
        /\ a < b}

SkipTierRows ==
    {<<a, b>> \in Books \X Books :
        /\ ~IsNone(book_tier[a]) /\ ~IsNone(book_tier[b])
        /\ TierGap(a, b) >= 2
        /\ a < b}

\* MergeBoth with the second MERGE left out
MergeBoth_OneWay(store, type, rows) ==
    store \cup {<<type, row[1], row[2]>> : row \in rows}

\* MERGE (a)-[:type]->(b) MERGE (b)-[:type]->(a) for every row
MergeBoth(store, type, rows) ==
    store \cup {<<type, row[1], row[2]>> : row \in rows}
          \cup {<<type, row[2], row[1]>> : row \in rows}

SeedFrame ==
    /\ UNCHANGED <<tierVars, engineVars, callVars, sessionVars, fileVars,
                   queryVars, threadVars, quotaVars, citeVars,
                   chunkVars>>

\* seed_books: MERGE (b:Book {book_id}) SET b.tier = $tier, from the
\* metadata files as they are now
SeedBooks ==
    /\ seed_pc = "idle"
    /\ book_tier' \in [Books -> BookTiers]
    /\ book_tier' # book_tier
    /\ UNCHANGED <<rels, seed_pc, seed_runs>>
    /\ SeedFrame

\* clear_database: MATCH ()-[r]->() DELETE r
ClearDatabase ==
    /\ seed_pc = "idle"
    /\ rels # {}
    /\ rels' = {}
    /\ UNCHANGED <<book_tier, seed_pc, seed_runs>>
    /\ SeedFrame

\* seed_tier_relationships is called
SeedStart ==
    /\ seed_pc = "idle"
    /\ seed_runs < MaxRuns
    /\ seed_pc' = "parallel"
    /\ UNCHANGED <<book_tier, rels, seed_runs>>
    /\ SeedFrame

\* lines 571-582: the PARALLEL query
SeedParallel ==
    /\ seed_pc = "parallel"
    /\ rels' = MergeBoth(rels, "PARALLEL", ParallelRows)
    /\ seed_pc' = "perpendicular"
    /\ UNCHANGED <<book_tier, seed_runs>>
    /\ SeedFrame

\* lines 585-597: the PERPENDICULAR query
SeedPerpendicular ==
    /\ seed_pc = "perpendicular"
    /\ rels' = MergeBoth(rels, "PERPENDICULAR", PerpendicularRows)
    /\ seed_pc' = "skip_tier"
    /\ UNCHANGED <<book_tier, seed_runs>>
    /\ SeedFrame

\* lines 600-614: the SKIP_TIER query, and the return
SeedSkipTier ==
    /\ seed_pc = "skip_tier"
    /\ rels' = MergeBoth(rels, "SKIP_TIER", SkipTierRows)
    /\ seed_pc' = "idle"
    /\ seed_runs' = seed_runs + 1
    /\ UNCHANGED book_tier
    /\ SeedFrame

\* a query raises (the store is not reachable): its transaction changes
\* nothing and the exception leaves seed_tier_relationships
SeedFails ==
    /\ seed_pc \in {"parallel", "perpendicular", "skip_tier"}
    /\ seed_pc' = "idle"
    /\ seed_runs' = seed_runs + 1
    /\ UNCHANGED <<book_tier, rels>>
    /\ SeedFrame

SeedNext ==
    \/ SeedBooks
    \/ ClearDatabase
    \/ SeedStart
    \/ SeedParallel
    \/ SeedPerpendicular
    \/ SeedSkipTier
    \/ SeedFails

SeedInit ==
    /\ book_tier \in [Books -> BookTiers]
    /\ rels = {}
    /\ seed_pc = "idle"
    /\ seed_runs = 0
    /\ qdrant_client = FALSE
    /\ EngineNew
    /\ CallIdle
    /\ TierIdle
    /\ SessionIdle
    /\ FilesValid
    /\ QueryIdle
    /\ ThreadIdle
    /\ QuotaIdle
    /\ CiteIdle
    /\ ChunkIdle

SpecSeed == SeedInit /\ [][SeedNext]_vars

-----------------------------------------------------------------------------
(* scripts/index_code_from_github.py: chunk_code, as index_repository      *)
(* calls it.  A file is its number of lines (len(content.split("\n")), at  *)
(* least 1) and whether it is larger than 500 KB; a chunk is its pair of   *)
(* 1-indexed line numbers.                                                 *)

\* lines 577-579 and 601: the parameters of the call
ChunkParams(large) ==
    IF large
    THEN [max_lines |-> LargeMaxLines, overlap |-> LargeOverlap,
          min_lines |-> LargeMinLines]
    ELSE [max_lines |-> MAX_CHUNK_LINES, overlap |-> OVERLAP_LINES,
          min_lines |-> MIN_CHUNK_LINES]

ChunkFrame ==
    /\ UNCHANGED <<ck_large, ck_total>>
    /\ UNCHANGED <<tierVars, engineVars, callVars, sessionVars, fileVars,
                   queryVars, threadVars, quotaVars, citeVars, seedVars>>

\* lines 335-343: a small file is returned as one chunk, else the loop is
\* entered with start = 0
ChunkCall ==
    /\ ck_pc = "idle"
    /\ IF ck_total <= ChunkParams(ck_large).max_lines
       THEN /\ ck_pc' = "done"
            /\ ck_chunks' = << <<1, ck_total>> >>
       ELSE /\ ck_pc' = "loop"
            /\ ck_chunks' = <<>>
    /\ ck_start' = 0
    /\ ChunkFrame

\* lines 345-359: the loop test and one iteration
ChunkIter ==
    /\ ck_pc = "loop"
    /\ LET par == ChunkParams(ck_large)
           end == Min(ck_start + par.max_lines, ck_total)
           next == end - par.overlap
       IN IF ~(ck_start < ck_total)
          THEN /\ ck_pc' = "done"
               /\ UNCHANGED <<ck_start, ck_chunks>>
          ELSE /\ ck_chunks' = IF end - ck_start >= par.min_lines
                               THEN Append(ck_chunks, <<ck_start + 1, end>>)
                               ELSE ck_chunks
               /\ ck_start' = next
               /\ ck_pc' = IF next >= ck_total - par.min_lines
                           THEN "done" ELSE "loop"
    /\ ChunkFrame

ChunkNext == ChunkCall \/ ChunkIter

ChunkInit ==
    /\ ck_large \in BOOLEAN
    /\ ck_total \in 1..MaxFileLines
    /\ ck_pc = "idle"
    /\ ck_start = 0
    /\ ck_chunks = <<>>
    /\ qdrant_client = FALSE
    /\ EngineNew
    /\ CallIdle
    /\ TierIdle
    /\ SessionIdle
    /\ FilesValid
    /\ QueryIdle
    /\ ThreadIdle
    /\ QuotaIdle
    /\ CiteIdle
    /\ SeedIdle

SpecChunk == ChunkInit /\ [][ChunkNext]_vars

-----------------------------------------------------------------------------
(* Properties of the tier / edge model, under SpecTier *)

\* C9: for all integers a and b, get_edge_type_for_tier_diff(a, b) is one of
\* PARALLEL, PERPENDICULAR, SKIP_TIER, and it equals the value for (b, a).
C9_TotalSymmetric ==
    edge # "none" =>
        /\ edge \in EdgeTypes
        /\ edge = get_edge_type_for_tier_diff(tier2, tier1)

C9_Witness ==
    /\ edge = "PERPENDICULAR"
    /\ tier1 < 0
    /\ tier2 > tier1

\* C10: the value is PARALLEL exactly when the tiers are equal, PERPENDICULAR
\* exactly when they differ by one, SKIP_TIER exactly when they differ by
\* two or more, negative tiers included.
C10_Partition ==
    edge # "none" =>
        /\ (edge = "PARALLEL") <=> (tier1 = tier2)
        /\ (edge = "PERPENDICULAR") <=>
               (tier1 = tier2 + 1 \/ tier2 = tier1 + 1)
        /\ (edge = "SKIP_TIER") <=>
               (tier1 >= tier2 + 2 \/ tier2 >= tier1 + 2)

C10_Witness ==
    /\ tier1 = 0 - 1
    /\ tier2 = 1
    /\ edge = "SKIP_TIER"

-----------------------------------------------------------------------------
(* Properties of search, under Spec *)

Returned_refs == Get(result).primary_references

\* C1: a call with top_k >= 0 returns at most top_k references, whatever
\* the layers and the expansion did; with top_k = 0 it returns none and
\* does not raise.
C1_CapRespected ==
    /\ (pc = "done" /\ top_k >= 0) => Len(Returned_refs) <= top_k
    /\ (pc = "done" /\ top_k = 0) => Returned_refs = <<>>
    /\ (pc # "idle" /\ top_k = 0) => pc # "raised"

\* the layers gathered more than top_k references and the call returned
C1_Witness ==
    /\ pc = "done"
    /\ top_k > 0
    /\ Get(result).total_chunks_found > top_k
    /\ Len(Returned_refs) = top_k

\* the repositories of the call before de-duplication
RawTargets == ResolveTargets(metadata_cache, domains, concepts).repos

FirstIndex(repos, id) ==
    CHOOSE i \in 1..Len(repos) :
        /\ repos[i].id = id
        /\ \A j \in 1..Len(repos) : repos[j].id = id => i <= j

\* C3: the resolved scope holds no id twice, holds every id the requested
\* domains (or concepts) gave, and orders the descriptors by first
\* occurrence.
C3_ScopeDedup ==
    pc # "idle" =>
        LET raw == RawTargets
        IN /\ \A i, j \in 1..Len(target_repos) :
                  target_repos[i].id = target_repos[j].id => i = j
           /\ {target_repos[i].id : i \in 1..Len(target_repos)}
                  = {raw[i].id : i \in 1..Len(raw)}
           /\ \A i \in 1..Len(target_repos) :
                  target_repos[i] = raw[FirstIndex(raw, target_repos[i].id)]
           /\ \A i, j \in 1..Len(target_repos) :
                  i < j => FirstIndex(raw, target_repos[i].id)
                               < FirstIndex(raw, target_repos[j].id)

\* two requested domains whose repository lists overlap
C3_Witness ==
    /\ pc # "idle"
    /\ Len(domains) = 2
    /\ domains[1] # domains[2]
    /\ Len(RawTargets) > Len(target_repos)
    /\ Len(target_repos) >= 2

\* C4: a failed expansion fetch leaves its reference in the list, with its
\* chunk and its position, and the later references are still expanded.
C4_ExpansionKeeps ==
    pc \in {"expand", "done"} =>
        /\ Len(references) = Len(refs_at_expand)
        /\ \A i \in 1..Len(references) :
               /\ references[i].chunk = refs_at_expand[i].chunk
               /\ expand_log[i] = "fail" =>
                      references[i].full_content
                          = refs_at_expand[i].full_content
               /\ expand_log[i] = "ok" => ~IsNone(references[i].full_content)
               /\ (pc = "done" /\ expand_context
                     /\ IsNone(refs_at_expand[i].full_content))
                      => expand_log[i] # "none"
        /\ pc = "done" =>
               \A i \in 1..Len(Returned_refs) :
                   Returned_refs[i].chunk = refs_at_expand[i].chunk

\* a fetch failed and the fetch of a later reference succeeded
C4_Witness ==
    /\ pc = "done"
    /\ \E i, j \in 1..Len(expand_log) :
           /\ i < j
           /\ expand_log[i] = "fail"
           /\ expand_log[j] = "ok"
           /\ i <= Len(Returned_refs)

\* C5: with a valid registry and valid descriptor files no failure of
\* Layer 1, of a Layer 2 query or of an expansion fetch makes search raise;
\* the call returns a CodeContext.
C5_NeverRaises ==
    /\ pc # "raised"
    /\ pc = "done" => ~IsNone(result)

\* Layer 1 raised, a Layer 2 query failed, an expansion fetch failed, and
\* the call returned
C5_Witness ==
    /\ pc = "done"
    /\ layer_a = "raise"
    /\ b_failed
    /\ \E i \in 1..Len(expand_log) : expand_log[i] = "fail"

RefKey(ref) == <<ref.chunk.repo_id, ref.chunk.file_path, ref.chunk.start_line>>

\* C6: no two references of a returned CodeContext share the key
\* (repo id, file path, start line).
C6_NoDuplicateKeys ==
    pc = "done" =>
        \A i, j \in 1..Len(Returned_refs) :
            RefKey(Returned_refs[i]) = RefKey(Returned_refs[j]) => i = j

\* C7: a call whose deadline expires while a layer or the expansion is in
\* flight returns the CodeContext of the references gathered so far.
C7_DeadlineReturnsPartial ==
    pc = "cancelled" =>
        /\ ~IsNone(result)
        /\ Returned_refs = PySliceTo(references, top_k)

\* the ids of the domains of the registry
RegistryDomainIds ==
    {Registry.domains[i].id : i \in 1..Len(Registry.domains)}

\* the ids of the scope of the call
ScopeIds == {target_repos[i].id : i \in 1..Len(target_repos)}

\* the repositories of a domain that have a descriptor
LoadedIds(domain_id) ==
    LET stubs == StubsOfDomain(domain_id)
    IN {stubs[i].id : i \in {j \in 1..Len(stubs) :
                                Exists(stubs[j].metadata_path)}}

\* C21: domains_searched of the result names every domain whose
\* repositories were in the scope of the call, names no domain that gave no
\* repository to the scope, and for a list of existing domains it is that
\* list in request order.
C21_DomainsActuallySearched ==
    pc = "done" =>
        LET ds == Get(result).domains_searched
        IN /\ \A d \in RegistryDomainIds :
                  (LoadedIds(d) # {} /\ LoadedIds(d) \subseteq ScopeIds)
                      => \E i \in 1..Len(ds) : ds[i] = d
           /\ \A i \in 1..Len(ds) : LoadedIds(ds[i]) \cap ScopeIds # {}
           /\ (domains # <<>>
                 /\ \A i \in 1..Len(domains) : domains[i] \in RegistryDomainIds)
                  => ds = domains

\* C22: a Layer 2 query adds at most min(remaining_needed, 5) references,
\* remaining_needed being top_k less the references gathered when the query
\* is issued; so the references never outnumber top_k during Layer 2.
C22_QueryBounded ==
    /\ ~IsNone(b_last) =>
           Get(b_last).got
               <= Min(top_k - Get(b_last).before, PerRepoLimit)
    /\ b_requests > 0 => Len(references) <= top_k

\* the references Layer 1 of the call produced
LayerARefs ==
    IF layer_a \in QdrantOutcomes
    THEN TryLayerA(search_qdrant(layer_a)).refs
    ELSE <<>>

\* C23: Layer 2 issues no query before Layer 1 has returned or failed, and
\* none at all when Layer 1 produced at least top_k references.
C23_LayerAFirst ==
    /\ b_requests > 0 => layer_a # "pending"
    /\ pc = "layerA" => b_requests = 0
    /\ (layer_a # "pending" /\ Len(LayerARefs) >= top_k) => b_requests = 0

\* Layer 1 ran and returned, its references (none) were at least top_k,
\* and the call returned without a Layer 2 query although the scope holds
\* repositories
C23_Witness ==
    /\ pc = "done"
    /\ layer_a \in QdrantOutcomes
    /\ Len(LayerARefs) >= top_k
    /\ target_repos # <<>>
    /\ b_requests = 0

\* the Layer 2 queries of the call that were answered
Answered == IF IsNone(b_last) THEN 0 ELSE Get(b_last).idx

\* C24: Layer 2 queries only the first 10 repositories of the scope, in
\* resolution order and one query at a time, issues no query once the
\* references have reached top_k, and so issues at most 10 queries.
C24_FirstTenInOrder ==
    /\ b_requests <= RepoLimit
    /\ b_requests - Answered \in {0, 1}
    /\ pc = "layerB" =>
           /\ repo_idx \in 1..Min(Len(target_repos), RepoLimit)
           /\ b_requests = repo_idx
           /\ Answered = repo_idx - 1
           /\ Len(references) < top_k
    /\ pc \in {"expand", "done"} => b_requests = Answered

\* the scope holds more than 10 repositories, the references never reached
\* top_k, and the call returned after 10 queries
C24_Witness ==
    /\ pc = "done"
    /\ Len(target_repos) > RepoLimit
    /\ Len(references) < top_k
    /\ b_requests = RepoLimit

\* the step in which the Layer 2 query in flight is answered by a failure
FailedAnswer ==
    /\ pc = "layerB"
    /\ ~IsNone(b_last')
    /\ Get(b_last').idx = repo_idx
    /\ Get(b_last').failed

\* C25: a Layer 2 query that fails adds no reference, the references
\* gathered before it are kept, and the loop goes on to query the
\* repositories that follow.
C25_FailureSkipsRepo ==
    [][FailedAnswer =>
          /\ Len(references') = Len(references)
          /\ \A i \in 1..Len(references) :
                 references'[i].chunk = references[i].chunk
          /\ pc' # "raised"
          /\ repo_idx < Min(Len(target_repos), RepoLimit) =>
                 /\ pc' = "layerB"
                 /\ repo_idx' = repo_idx + 1
                 /\ b_requests' = b_requests + 1]_vars

\* a query failed after an earlier one had added a reference; the
\* reference is kept and the next repository is being queried
C25_Witness ==
    /\ pc = "layerB"
    /\ ~IsNone(b_last)
    /\ Get(b_last).failed
    /\ Get(b_last).before > 0
    /\ Len(references) = Get(b_last).before
    /\ repo_idx = Get(b_last).idx + 1

-----------------------------------------------------------------------------
(* Properties of the session, under SpecSession *)

\* C8: whenever a session of the engine is left, by a normal return, an
\* error or a cancellation, the client of the engine holds no open
\* connection afterwards.
C8_ReleasedOnExit ==
    [][(session = "in" /\ session' = "out") => ~client_open']_vars

\* a session that made a request was left by cancellation
C8_Witness ==
    /\ session = "out"
    /\ last_exit = "cancel"
    /\ last_op # "none"
    /\ sessions = 1
    /\ ~client_open

-----------------------------------------------------------------------------
(* Properties of the registry queries, under SpecRegistry *)

LastQ == Get(q_last)

RegisteredIds == {AllStubs[i].id : i \in 1..Len(AllStubs)}

\* C12: with a valid registry, get_metadata of an id that no domain lists
\* returns None and does not raise, on the first call and on every later
\* one.
C12_UnknownIdNone ==
    (/\ ~IsNone(q_last)
     /\ LastQ.op = "get_metadata"
     /\ registry_file = "ok"
     /\ LastQ.arg[1] \notin RegisteredIds)
        => /\ ~LastQ.raised
           /\ LastQ.ret = None

\* the unknown id was asked for twice in a row, after another query
C12_Witness ==
    /\ ~IsNone(q_last)
    /\ LastQ.op = "get_metadata"
    /\ LastQ.arg = <<"rx">>
    /\ LastQ.repeat
    /\ q_calls = 3
    /\ LastQ.ret = None
    /\ ~LastQ.raised

\* the last query read the registry (a cache hit of get_metadata does not)
AccessesRegistry ==
    LastQ.op = "get_metadata" => LastQ.arg[1] \notin LastQ.pre_cached

\* the descriptor files of the repositories the last query had to load
NeededPaths ==
    LET stubs == CASE LastQ.op = "get_metadata" ->
                         SelectSeq(AllStubs, LAMBDA st : st.id = LastQ.arg[1])
                   [] LastQ.op = "for_domain" -> StubsOfDomain(LastQ.arg[1])
                   [] OTHER -> AllStubs
    IN {stubs[i].metadata_path :
            i \in {j \in 1..Len(stubs) : stubs[j].id \notin LastQ.pre_cached}}

\* the ids of what the last query returned (a descriptor, None, or a list)
ReturnedIds == {LastQ.ret[i].id : i \in 1..Len(LastQ.ret)}

\* C13 as stated: a registry file or a descriptor file of a registered
\* repository that is missing or unparseable makes the first operation that
\* accesses it raise.
C13_ConfigErrorsFatal ==
    (~IsNone(q_last) /\ AccessesRegistry) =>
        /\ (~LastQ.pre_loaded /\ registry_file # "ok") => LastQ.raised
        /\ (\E mp \in NeededPaths : descriptor_files[mp] # "ok")
               => LastQ.raised

\* C13 as the code has it: a registry file that is missing or unparseable
\* and a descriptor file that is unparseable make the first operation that
\* accesses them raise; a descriptor file that is missing does not:
\* get_metadata returns None and the filters leave the repository out.
C13_BadFilesFatal ==
    (~IsNone(q_last) /\ AccessesRegistry) =>
        /\ (~LastQ.pre_loaded /\ registry_file # "ok") => LastQ.raised
        /\ (\E mp \in NeededPaths : descriptor_files[mp] = "bad")
               => LastQ.raised
        /\ (/\ registry_file = "ok"
            /\ \A mp \in NeededPaths : descriptor_files[mp] # "bad")
               => /\ ~LastQ.raised
                  /\ \A i \in 1..Len(AllStubs) :
                         descriptor_files[AllStubs[i].metadata_path]
                                 = "missing"
                             => AllStubs[i].id \notin ReturnedIds

\* a filter raised on an unparseable descriptor file after an earlier query
\* had returned
C13_Witness ==
    /\ ~IsNone(q_last)
    /\ LastQ.op = "for_domain"
    /\ LastQ.raised
    /\ LastQ.pre_loaded
    /\ registry_file = "ok"

\* the characters of a domain id
Chars(str) ==
    CASE str = "d1" -> <<"d", "1">>
      [] str = "d2" -> <<"d", "2">>
      [] str = "d3" -> <<"d", "3">>
      [] str = "D1" -> <<"D", "1">>
      [] str = "dx" -> <<"d", "x">>
      [] str = "d" -> <<"d">>

\* the descriptors of `stubs` whose file exists, one per listing, in order
ListingOf(stubs) ==
    LET ex == SelectSeq(stubs, LAMBDA st : Exists(st.metadata_path))
    IN [i \in 1..Len(ex) |-> Get(DescriptorFile(ex[i].metadata_path))]

\* `text` is a substring of one of `strs`, letter case ignored
InAnyNoCase(text, strs) ==
    \E i \in 1..Len(strs) : Contains(Lower(text), Lower(strs[i]))

\* the stubs of the domains that `Match` accepts, in registry order
StubsWhere(Match(_)) ==
    Flatten([i \in 1..Len(Registry.domains) |->
                IF Match(Registry.domains[i].id)
                THEN Registry.domains[i].repos ELSE <<>>])

ConceptAndPatternFilters ==
    /\ LastQ.op = "by_concept" =>
           LastQ.ret = SelectSeq(ListingOf(AllStubs),
                           LAMBDA m : InAnyNoCase(LastQ.arg, m.concepts))
    /\ LastQ.op = "by_pattern" =>
           LastQ.ret = SelectSeq(ListingOf(AllStubs),
                           LAMBDA m : InAnyNoCase(LastQ.arg, m.patterns))

NoRaiseOnValidFiles ==
    (registry_file = "ok" /\ descriptor_files = ValidFiles) => ~LastQ.raised

\* C17 as stated: each filter returns the loaded descriptors whose domain
\* id, concepts or patterns contain the query as a case-insensitive
\* substring, in registry order, and an empty list without raising when
\* nothing matches.
C17_SubstringFilters ==
    ~IsNone(q_last) =>
        /\ NoRaiseOnValidFiles
        /\ ~LastQ.raised =>
               /\ ConceptAndPatternFilters
               /\ LastQ.op = "for_domain" =>
                      LastQ.ret = ListingOf(StubsWhere(
                          LAMBDA id : Contains(Lower(Chars(LastQ.arg[1])),
                                               Lower(Chars(id)))))

\* C17 as the code has it: get_repos_for_domain returns the loaded
\* descriptors of the domains whose id equals the query, letter case
\* included; the other two filter on a case-insensitive substring of a
\* concept or a pattern; each list is in registry order, one entry per
\* listing of a repository, and is empty, without an exception, when
\* nothing matches.
C17_Filters ==
    ~IsNone(q_last) =>
        /\ NoRaiseOnValidFiles
        /\ ~LastQ.raised =>
               /\ ConceptAndPatternFilters
               /\ LastQ.op = "for_domain" =>
                      LastQ.ret = ListingOf(StubsWhere(
                          LAMBDA id : id = LastQ.arg[1]))

\* a concept query in another letter case matched a repository that two
\* domains list, and a query that matches nothing returned the empty list
C17_Witness ==
    /\ ~IsNone(q_last)
    /\ LastQ.op = "by_concept"
    /\ LastQ.arg = <<"A">>
    /\ ~LastQ.raised
    /\ Len(LastQ.ret) = 3
    /\ descriptor_files = ValidFiles

-----------------------------------------------------------------------------
(* Properties of get_metadata under concurrent calls, under SpecMeta *)

\* what the cache holds for an id, as get_metadata would return it
CacheEntry(id) ==
    IF CacheHas(metadata_cache, id)
    THEN Some([obj |-> cache_obj[id], val |-> metadata_cache[id]])
    ELSE None

\* no call for the id is between its cache test and its return
Settled(id) ==
    \A t \in Threads : th_id[t] = id => th_pc[t] \in {"idle", "done"}

\* C11: in every interleaving of get_metadata calls for an id, also when
\* several miss the cache before any has stored, all the calls return
\* records equal in value, and the cache entry ends equal to that value.
C11_RacesValueEqual ==
    \A id \in MetaIds :
        /\ \A a, b \in returned[id] : MetaEq(a, b)
        /\ Settled(id) => \A a \in returned[id] : MetaEq(a, CacheEntry(id))

\* two calls for one id both missed the cache, each built its own object,
\* both have returned, and a later call hit the cache
C11_Witness ==
    \E id \in MetaIds :
        /\ Settled(id)
        /\ \E a, b \in returned[id] :
               /\ ~IsNone(a) /\ ~IsNone(b)
               /\ Get(a).obj # Get(b).obj
        /\ \E t \in Threads :
               /\ th_pc[t] = "done"
               /\ th_id[t] = id
               /\ IsNone(th_obj[t])

-----------------------------------------------------------------------------
(* Properties of the rate-limit handling, under SpecQuota *)

LastResp == Get(qt_last)

\* the last response reported a quota under the threshold and a reset time
\* after the time it was received
QuotaLow ==
    /\ ~IsNone(qt_last)
    /\ ~IsNone(LastResp.remaining)
    /\ ~IsNone(LastResp.reset)
    /\ Get(LastResp.remaining) < RateThreshold
    /\ Get(LastResp.reset) > LastResp.time

\* C14: after a response that reports a remaining quota under 100 with a
\* reset time in the future the client sleeps before anything else, for no
\* longer than the time until the reset and no longer than 60 s; the
\* operation then goes on and returns, and no request is issued before the
\* sleep is over.
C14_BoundedWait ==
    QuotaLow =>
        /\ LastResp.slept > 0
        /\ LastResp.slept <= Get(LastResp.reset) - LastResp.time
        /\ LastResp.slept <= WaitCeiling
        /\ now = LastResp.time + LastResp.slept
        /\ LastResp.ret \in {"walking", "tree", "entries", "empty"}
        /\ rate_limit_remaining = Get(LastResp.remaining)

\* 95 remaining with the reset 30 s ahead: the client slept 30 s; and the
\* reset 61 s ahead: it slept 60 s
C14_Witness ==
    /\ QuotaLow
    /\ LastResp.remaining = Some(95)
    /\ LastResp.slept = 30
    /\ LastResp.time > 0
    /\ LastResp.op = "get_tree"

-----------------------------------------------------------------------------
(* Properties of the async GitHubClient, under SpecSession *)

\* C15: every response the client receives, for every request operation,
\* sets the remaining-quota and reset-time state of the client to the
\* values of the rate-limit headers of that response.
C15_EveryResponseTracked ==
    (last_op # "none" /\ ~IsNone(last_op[4])) => ClientQuota = last_op[4]

\* C18: get_file and get_file_lines return None, list_directory and
\* search_code return an empty list, and none of them raises, for a 404,
\* any other HTTP error status and a transport exception.
C18_ClientNeverRaises ==
    last_op # "none" =>
        /\ ~last_op[5]
        /\ last_op[3] # "200" =>
               IF last_op[1] \in {"get_file", "get_file_lines"}
               THEN last_op[2] = "None"
               ELSE last_op[2] = "empty"

\* inside a session the request of get_file_lines failed in the transport
\* and the call returned None
C18_Witness ==
    /\ last_op # "none"
    /\ session = "in"
    /\ last_op[1] = "get_file_lines"
    /\ last_op[3] = "exc"
    /\ last_op[2] = "None"

-----------------------------------------------------------------------------
(* Properties of the citation, under SpecCite *)

\* C16: citation is the source-provided URL when that URL is non-empty;
\* otherwise the blob URL of the file path with the anchor #Lstart-Lend,
\* which is #Lstart when the start line equals the end line.
C16_CitationUrl ==
    ~IsNone(cite_out) =>
        LET ref == Get(cite_ref)
        IN Get(cite_out) =
               IF ref.source_url # ""
               THEN <<ref.source_url>>
               ELSE <<BlobBase, "/", ref.file_path, "#L",
                      ToString(ref.start_line)>>
                    \o (IF ref.start_line = ref.end_line THEN <<>>
                        ELSE <<"-L", ToString(ref.end_line)>>)

-----------------------------------------------------------------------------
(* Properties of the seeded relationships, under SpecSeed *)

\* C19: after seed_tier_relationships has run, whatever earlier runs left
\* in the store, every PARALLEL, PERPENDICULAR or SKIP_TIER relationship
\* from a book A to a book B has one of the same type from B to A.
C19_Bidirectional ==
    (seed_pc = "idle" /\ seed_runs > 0) =>
        \A rel \in rels : <<rel[1], rel[3], rel[2]>> \in rels

\* the second run found the tiers changed: the pair keeps the relationship
\* of the first run and has the one of the second, each in both directions
C19_Witness ==
    /\ seed_pc = "idle"
    /\ seed_runs = 2
    /\ \E a, b \in Books :
           /\ a < b
           /\ <<"PARALLEL", a, b>> \in rels
           /\ <<"SKIP_TIER", b, a>> \in rels
           /\ TierGap(a, b) >= 2

\* C30: when a run of seed_tier_relationships completes, after any earlier
\* runs on a store that was not cleared and with the tiers seed_books has
\* set by then, every pair of distinct books whose tiers are not NULL is
\* linked by exactly one relationship label, the one that
\* get_edge_type_for_tier_diff gives for the books' current tiers.
C30_OneCurrentLabel ==
    [][(/\ seed_pc = "skip_tier"
        /\ seed_pc' = "idle"
        /\ rels' = MergeBoth(rels, "SKIP_TIER", SkipTierRows)) =>
           \A a, b \in Books :
               (a # b /\ ~IsNone(book_tier'[a]) /\ ~IsNone(book_tier'[b])) =>
                   {rel[1] : rel \in {r \in rels' : {r[2], r[3]} = {a, b}}} =
                       {get_edge_type_for_tier_diff(Get(book_tier'[a]),
                                                    Get(book_tier'[b]))}]_vars

-----------------------------------------------------------------------------
(* Properties of the scope and of the frame of search, under Spec *)

\* the descriptors of the registry that have a file
Descriptors ==
    {ListingOf(AllStubs)[i] : i \in 1..Len(ListingOf(AllStubs))}

\* C26: the scope is the union of the repositories of the given domains
\* when a domain list is given (a concept list given with it is not used),
\* else the union of the concept matches when a concept list is given, else
\* the descriptors marked mirrored and no other.
C26_ScopeResolution ==
    pc # "idle" =>
        ScopeIds =
            IF domains # <<>>
            THEN UNION {LoadedIds(domains[i]) : i \in 1..Len(domains)}
            ELSE IF concepts # <<>>
            THEN {m.id : m \in {d \in Descriptors :
                     \E i \in 1..Len(concepts) :
                         InAnyNoCase(concepts[i], d.concepts)}}
            ELSE {m.id : m \in {d \in Descriptors : d.mirrored}}

\* domains and concepts were both given, and the scope holds a repository
\* of the domains that matches none of the concepts
C26_Witness ==
    /\ pc # "idle"
    /\ domains # <<>>
    /\ concepts # <<>>
    /\ \E m \in Descriptors :
           /\ m.id \in ScopeIds
           /\ \A i \in 1..Len(concepts) :
                  ~InAnyNoCase(concepts[i], m.concepts)


\* C27: a step of search changes nothing of the engine but the registry,
\* which it loads on first access, and the metadata cache, to which it adds
\* entries: no entry is removed or replaced, and the Qdrant client, the
\* GitHub client and its connection are as they were.
C27_SearchFrame ==
    [][/\ qdrant_client' = qdrant_client
       /\ github' = github
       /\ client_open' = client_open
       /\ registry_loaded => registry_loaded'
       /\ \A id \in DOMAIN metadata_cache :
              /\ id \in DOMAIN metadata_cache'
              /\ metadata_cache'[id] = metadata_cache[id]]_vars

-----------------------------------------------------------------------------
(* Properties of the connections, under SpecSession *)

\* C28: a connection is opened only by entering a session; no request
\* made before a session is entered or after it is left opens one, so no
\* connection is open outside a session and none is left behind.
C28_OpenedOnlyBySession ==
    /\ session = "out" => ~client_open
    /\ orphans = 0


-----------------------------------------------------------------------------
(* Properties of chunk_code, under SpecChunk *)

\* C29: for a file with more lines than max_lines, with either parameter
\* set of the indexer, the chunks returned cover every line 1..total_lines
\* and each has 1 <= start_line <= end_line <= total_lines.
C29_ChunksCoverFile ==
    (ck_pc = "done" /\ ck_total > ChunkParams(ck_large).max_lines) =>
        /\ \A l \in 1..ck_total :
               \E i \in 1..Len(ck_chunks) :
                   ck_chunks[i][1] <= l /\ l <= ck_chunks[i][2]
        /\ \A i \in 1..Len(ck_chunks) :
               /\ 1 <= ck_chunks[i][1]
               /\ ck_chunks[i][1] <= ck_chunks[i][2]
               /\ ck_chunks[i][2] <= ck_total

====
